---------------------------- MODULE Spec2Model ----------------------------
(***************************************************************************)
(* Model of the midstring crate (src/src/lib.rs): mid_string and the       *)
(* byte-level procedure the_original_algorith_with_ascii_digits.           *)
(*                                                                         *)
(* Strings are sequences of bytes (0..255).  A Rust &str is its UTF-8      *)
(* bytes, so an input is a byte sequence that is valid UTF-8.  Rust        *)
(* indexes from 0: the byte prev[len] of the code is prev[len + 1] here.   *)
(* Every loop iteration of the procedure is one step of the model.         *)
(***************************************************************************)
EXTENDS Integers, Sequences, FiniteSets

\* ----------------------------------------------------------------- bounds
\* longest input string of the lowercase specification
MaxLen == 3
\* longest input string of the raw-byte specification
MaxRawLen == 2
\* longest input string and longest key list of the re-ordering specification
MaxKeyLen == 2
MaxKeys == 4

\* ------------------------------------------------- constants of lib.rs
A == 97
B == 98
Z == 122

VARIABLES
    argPrev,    \* mid_string's argument prev
    argNext,    \* mid_string's argument next
    prev,       \* the procedure's local copy of prev (zero pushed at the end)
    next,       \* the procedure's local copy of next (zero pushed at the end)
    p,          \* u8
    n,          \* u8
    len,        \* usize index
    buf,        \* output bytes
    pc,         \* position in the code
    fault,      \* why the call panicked ("none" while it has not)
    iters,      \* loop bodies executed so far (all three loops)
    result,     \* the String mid_string returned
    keys,       \* the caller's ordered key list (crate documentation)
    at          \* the call is for keys[at], keys[at + 1]

vars == <<argPrev, argNext, prev, next, p, n, len, buf, pc, fault, iters,
          result, keys, at>>

\* ---------------------------------------------------------------- inputs
\* the sample of lowercase letters inputs are drawn from: both ends of the
\* alphabet, so that runs of a, the b boundary, runs of z, adjacent letters
\* and gaps of 2 and more all occur
Letters == {A, B, A + 2, Z - 1, Z}

\* bytes outside a..z that valid text may hold, beside three letters
RawBytes == {0, A - 1, A, B, Z, Z + 1}

Strs(S, k) == UNION {[1..m -> S] : m \in 0..k}

\* the argument pairs of the crate's doc tests and unit tests
DocExamples ==
    { << <<>>, <<105>> >>,                                   \* "", "i"
      << <<>>, <<98>> >>,                                    \* "", "b"
      << <<>>, <<>> >>,                                      \* "", ""
      << <<97,97,97>>, <<97,97,122>> >>,                     \* aaa aaz
      << <<97,98,99>>, <<97,98,99,97,98>> >>,                \* abc abcab
      << <<97,98,99,100,101>>, <<97,98,99,104,105>> >>,      \* abcde abchi
      << <<97,98,99>>, <<97,98,99,104,105>> >>,              \* abc abchi
      << <<97,98,104,115>>, <<97,98,105,116>> >>,            \* abhs abit
      << <<97,98,104>>, <<97,98,105,116>> >>,                \* abh abit
      << <<97,98,104,122>>, <<97,98,105,116>> >>,            \* abhz abit
      << <<97,98,104,122,115>>, <<97,98,105,116>> >>,        \* abhzs abit
      << <<97,98,104,122,122>>, <<97,98,105,116>> >>,        \* abhzz abit
      << <<97,98,99>>, <<97,98,99,97,104>> >>,               \* abc abcah
      << <<97,98,99>>, <<97,98,99,97,97,104>> >>,            \* abc abcaah
      << <<97,98,99>>, <<97,98,99,98>> >> }                  \* abc abcb

\* ------------------------------------------------------- pure helpers
\* lexicographic order of byte strings (str's Ord): the first differing
\* byte decides, a strict prefix is smaller
IsPrefix(s, t) == Len(s) <= Len(t) /\ \A i \in 1..Len(s) : s[i] = t[i]

Less(s, t) ==
    \/ Len(s) < Len(t) /\ IsPrefix(s, t)
    \/ \E k \in 1..Len(s) :
          /\ k <= Len(t)
          /\ \A i \in 1..(k - 1) : s[i] = t[i]
          /\ s[k] < t[k]

\* u8 subtraction as a release build computes it, and whether it overflows
SubU8(x, y) == (x - y) % 256
SubOverflows(x, y) == x < y

\* `if prev[len] != 0 { prev[len] } else { A - 1 }`
PrevAt(s, i) == IF s[i + 1] # 0 THEN s[i + 1] ELSE A - 1

\* a read of next that forgets the end-of-right sentinel
NextAtNoSentinel(s, i) == s[i + 1]

\* `if next[len] != 0 { next[len] } else { Z + 1 }`
NextAt(s, i) == IF s[i + 1] # 0 THEN s[i + 1] ELSE Z + 1

\* s[i] panics unless i < s.len()
InBounds(s, i) == i < Len(s)

\* a middle character rounded the other way: p + (n - p) / 2
MiddleCharRoundsDown(nn, pp) == pp + ((nn - pp) \div 2)

\* `n - (n - p) / 2` where no subtraction overflows
MiddleChar(nn, pp) == nn - ((nn - pp) \div 2)

\* String::from_utf8's test: the bytes are well-formed UTF-8
Cont(b) == b >= 128 /\ b <= 191

RECURSIVE Utf8Valid(_)
Utf8Valid(s) ==
    IF s = <<>> THEN TRUE
    ELSE LET b == s[1]
             m == Len(s)
         IN  IF b < 128 THEN Utf8Valid(Tail(s))
             ELSE IF b >= 194 /\ b <= 223
                  THEN m >= 2 /\ Cont(s[2]) /\ Utf8Valid(SubSeq(s, 3, m))
             ELSE IF b >= 224 /\ b <= 239
                  THEN /\ m >= 3 /\ Cont(s[2]) /\ Cont(s[3])
                       /\ (b = 224 => s[2] >= 160)
                       /\ (b = 237 => s[2] <= 159)
                       /\ Utf8Valid(SubSeq(s, 4, m))
             ELSE IF b >= 240 /\ b <= 244
                  THEN /\ m >= 4 /\ Cont(s[2]) /\ Cont(s[3]) /\ Cont(s[4])
                       /\ (b = 240 => s[2] >= 144)
                       /\ (b = 244 => s[2] <= 143)
                       /\ Utf8Valid(SubSeq(s, 5, m))
             ELSE FALSE

\* ------------------------------------------------------------------ Init
Start(pr, nx) ==
    /\ argPrev = pr
    /\ argNext = nx
    /\ prev = <<>>
    /\ next = <<>>
    /\ p = 0
    /\ n = 0
    /\ len = 0
    /\ buf = <<>>
    /\ pc = "call"
    /\ fault = "none"
    /\ iters = 0
    /\ result = <<>>
    /\ keys = <<pr, nx>>
    /\ at = 1

\* any two lowercase strings, in any order
Init ==
    \E pair \in (Strs(Letters, MaxLen) \X Strs(Letters, MaxLen)) \cup DocExamples :
        Start(pair[1], pair[2])

\* any two strings of valid text over RawBytes
InitRaw ==
    \E pr \in Strs(RawBytes, MaxRawLen), nx \in Strs(RawBytes, MaxRawLen) :
        Start(pr, nx)

\* two lowercase keys prev < next
InitKeys ==
    \E pr \in Strs(Letters, MaxKeyLen), nx \in Strs(Letters, MaxKeyLen) :
        /\ Less(pr, nx)
        /\ Start(pr, nx)

\* --------------------------------------------------------------- actions
Panic(why) ==
    /\ pc' = "panic"
    /\ fault' = why
    /\ UNCHANGED <<argPrev, argNext, prev, next, p, n, len, buf, iters,
                   result, keys, at>>

\* mid_string's entry and the procedure's prologue
Call ==
    /\ pc = "call"
    /\ prev' = Append(argPrev, 0)
    /\ next' = Append(argNext, 0)
    /\ p' = 0
    /\ n' = 0
    /\ len' = 0
    /\ buf' = <<>>
    /\ pc' = "copy"
    /\ UNCHANGED <<argPrev, argNext, fault, iters, result, keys, at>>

\* one iteration of `while p == n` (copy identical part)
CopyIdentical ==
    /\ pc = "copy"
    /\ p = n
    /\ IF ~InBounds(prev, len) \/ ~InBounds(next, len)
       THEN Panic("index")
       ELSE LET pp == PrevAt(prev, len)
                nn == NextAt(next, len)
            IN  /\ p' = pp
                /\ n' = nn
                /\ iters' = iters + 1
                /\ IF pp = nn
                   THEN /\ buf' = Append(buf, pp)
                        /\ len' = len + 1
                        /\ pc' = "copy"
                   ELSE /\ UNCHANGED <<buf, len>>
                        /\ pc' = "diverged"
                /\ UNCHANGED <<argPrev, argNext, prev, next, fault, result,
                               keys, at>>

\* `if p == (A - 1)`: end of left string
EndOfLeft ==
    /\ pc = "diverged"
    /\ p = A - 1
    /\ pc' = "as"
    /\ UNCHANGED <<argPrev, argNext, prev, next, p, n, len, buf, fault,
                   iters, result, keys, at>>

\* one iteration of `while n == A` (handle a's)
HandleAs ==
    /\ pc = "as"
    /\ n = A
    /\ IF ~InBounds(next, len + 1)
       THEN Panic("index")
       ELSE /\ buf' = Append(buf, A)
            /\ len' = len + 1
            /\ n' = NextAt(next, len + 1)
            /\ iters' = iters + 1
            /\ UNCHANGED <<argPrev, argNext, prev, next, p, pc, fault,
                           result, keys, at>>

\* a HandleB that forgets the `if n == B` block
HandleBSkipped ==
    /\ pc = "as"
    /\ n # A
    /\ pc' = "middle"
    /\ UNCHANGED <<argPrev, argNext, prev, next, p, n, len, buf, fault,
                   iters, result, keys, at>>

\* the end of `while n == A`, then `if n == B` (handle b)
HandleB ==
    /\ pc = "as"
    /\ n # A
    /\ IF n = B
       THEN /\ buf' = Append(buf, A)
            /\ len' = len + 1
            /\ n' = Z + 1
       ELSE UNCHANGED <<buf, len, n>>
    /\ pc' = "middle"
    /\ UNCHANGED <<argPrev, argNext, prev, next, p, fault, iters, result,
                   keys, at>>

\* a Consecutive that forgets `n = Z + 1`
ConsecutiveKeepsN ==
    /\ pc = "diverged"
    /\ p # A - 1
    /\ p + 1 = n
    /\ IF ~InBounds(prev, len + 1)
       THEN Panic("index")
       ELSE /\ buf' = Append(buf, p)
            /\ len' = len + 1
            /\ p' = PrevAt(prev, len + 1)
            /\ pc' = "zs"
            /\ UNCHANGED <<argPrev, argNext, prev, next, n, fault, iters,
                           result, keys, at>>

\* `else if (p + 1) == n`: consecutive characters, up to `check = p == Z`
\* (p is a byte of valid text, at most 0xF4, so p + 1 does not overflow)
Consecutive ==
    /\ pc = "diverged"
    /\ p # A - 1
    /\ p + 1 = n
    /\ IF ~InBounds(prev, len + 1)
       THEN Panic("index")
       ELSE /\ n' = Z + 1
            /\ buf' = Append(buf, p)
            /\ len' = len + 1
            /\ p' = PrevAt(prev, len + 1)
            /\ pc' = "zs"
            /\ UNCHANGED <<argPrev, argNext, prev, next, fault, iters,
                           result, keys, at>>

\* neither branch of the if: p and n go to the last step as they are
Gap ==
    /\ pc = "diverged"
    /\ p # A - 1
    /\ p + 1 # n
    /\ pc' = "middle"
    /\ UNCHANGED <<argPrev, argNext, prev, next, p, n, len, buf, fault,
                   iters, result, keys, at>>

\* a HandleZs that leaves the loop without copying the z's
HandleZsSkipped ==
    /\ pc = "zs"
    /\ pc' = "middle"
    /\ UNCHANGED <<argPrev, argNext, prev, next, p, n, len, buf, fault,
                   iters, result, keys, at>>

\* `while check` (handle z's): one iteration, or the exit
HandleZs ==
    /\ pc = "zs"
    /\ IF p = Z
       THEN IF ~InBounds(prev, len + 1)
            THEN Panic("index")
            ELSE /\ buf' = Append(buf, Z)
                 /\ len' = len + 1
                 /\ p' = PrevAt(prev, len + 1)
                 /\ iters' = iters + 1
                 /\ UNCHANGED <<argPrev, argNext, prev, next, n, pc, fault,
                                result, keys, at>>
       ELSE /\ pc' = "middle"
            /\ UNCHANGED <<argPrev, argNext, prev, next, p, n, len, buf,
                           fault, iters, result, keys, at>>

\* `let middle_char = n - (n - p) / 2; buf.push(middle_char); buf`
\* A u8 subtraction that overflows panics in a build with overflow checks
\* and wraps in a build without them.
Middle ==
    /\ pc = "middle"
    /\ LET d == SubU8(n, p)
           h == d \div 2
       IN  IF SubOverflows(n, p) \/ SubOverflows(n, h)
           THEN \E overflowChecks \in BOOLEAN :
                   IF overflowChecks
                   THEN Panic("overflow")
                   ELSE /\ buf' = Append(buf, SubU8(n, h))
                        /\ pc' = "ret"
                        /\ UNCHANGED <<argPrev, argNext, prev, next, p, n,
                                       len, fault, iters, result, keys, at>>
           ELSE /\ buf' = Append(buf, MiddleChar(n, p))
                /\ pc' = "ret"
                /\ UNCHANGED <<argPrev, argNext, prev, next, p, n, len,
                               fault, iters, result, keys, at>>

\* `String::from_utf8(buf_bytes).unwrap()`
Return ==
    /\ pc = "ret"
    /\ IF Utf8Valid(buf)
       THEN /\ result' = buf
            /\ pc' = "done"
            /\ UNCHANGED <<argPrev, argNext, prev, next, p, n, len, buf,
                           fault, iters, keys, at>>
       ELSE Panic("utf8")

\* the documented use: the new key goes between the two keys it was made
\* from, and the caller asks for the next key between two adjacent keys
InsertKey ==
    /\ pc = "done"
    /\ Len(keys) < MaxKeys
    /\ LET grown == SubSeq(keys, 1, at) \o <<result>>
                    \o SubSeq(keys, at + 1, Len(keys))
       IN  /\ keys' = grown
           /\ \E i \in 1..(Len(grown) - 1) :
                 /\ at' = i
                 /\ argPrev' = grown[i]
                 /\ argNext' = grown[i + 1]
    /\ pc' = "call"
    /\ iters' = 0
    /\ UNCHANGED <<prev, next, p, n, len, buf, fault, result>>

\* one call of mid_string
Next ==
    \/ Call
    \/ CopyIdentical
    \/ EndOfLeft
    \/ HandleAs
    \/ HandleB
    \/ Consecutive
    \/ Gap
    \/ HandleZs
    \/ Middle
    \/ Return

\* calls of mid_string on a key list that grows by each result
NextKeys ==
    \/ Next
    \/ InsertKey

Spec == Init /\ [][Next]_vars

SpecRaw == InitRaw /\ [][Next]_vars

SpecKeys == InitKeys /\ [][NextKeys]_vars

\* ---------------------------------------------------------------- claims
Terminal == pc \in {"done", "panic"}

MaxOf(x, y) == IF x >= y THEN x ELSE y

MinOf(x, y) == IF x <= y THEN x ELSE y

\* length of the longest common prefix of s and t
LcpLen(s, t) ==
    CHOOSE k \in 0..MinOf(Len(s), Len(t)) :
        /\ \A i \in 1..k : s[i] = t[i]
        /\ k = MinOf(Len(s), Len(t)) \/ s[k + 1] # t[k + 1]

\* length of the maximal run of byte c in s right after its first `from` bytes
RunLen(s, from, c) ==
    CHOOSE k \in 0..(Len(s) - from) :
        /\ \A i \in 1..k : s[from + i] = c
        /\ from + k = Len(s) \/ s[from + k + 1] # c

Rep(c, k) == [i \in 1..k |-> c]

\* next is prev followed by one or more 'a' bytes
OnlyAsAdded(s, t) ==
    /\ IsPrefix(s, t)
    /\ Len(t) > Len(s)
    /\ \A i \in (Len(s) + 1)..Len(t) : t[i] = 97

Between(lo, mid, hi) == Less(lo, mid) /\ Less(mid, hi)

\* C1: for lowercase prev < next, mid_string(prev, next) is non-empty and
\* prev < mid < next.  (Stated as claimed; the code breaks it.)
C1_StrictlyBetween ==
    (Terminal /\ Less(argPrev, argNext))
        => /\ pc = "done"
           /\ result # <<>>
           /\ Between(argPrev, result, argNext)

\* C2: a key list that starts as [prev, next] with prev < next and grows by
\* inserting mid_string(k[i], k[i+1]) between adjacent keys stays strictly
\* increasing, and every call succeeds with a result strictly between its
\* arguments.  (Stated as claimed; the code breaks it.)
C2_KeysStayOrdered ==
    /\ pc # "panic"
    /\ \A i \in 1..(Len(keys) - 1) : Less(keys[i], keys[i + 1])
    /\ pc = "done" => Between(argPrev, result, argNext)

\* C3: for valid-text inputs with bytes outside 'a'..'z', mid_string does
\* not panic: no read past the end of prev or next, and the call returns.
\* (Stated as claimed; the code breaks it.)
C3_NoPanicOnRawBytes ==
    /\ fault # "index"
    /\ pc # "panic"

\* C4: for every pair of lowercase strings, in any order, the u8
\* computation n - (n - p) / 2 never overflows and the bytes convert back
\* to text, so the call signals no error.  (Stated as claimed; the code
\* breaks it.)
C4_NoErrorInAnyOrder ==
    /\ fault \notin {"overflow", "utf8"}
    /\ pc = "middle" => ~SubOverflows(n, p)
    /\ pc = "ret" => Utf8Valid(buf)

\* C5: when prev is a prefix of next (equal strings included), the result
\* is prev, then the maximal run of 'a' next has right after that prefix,
\* then "an" if the byte of next after the run is 'b', otherwise the one
\* byte n - (n - 96) / 2 with n the byte of next after the run, or 123 if
\* next has ended; with the four examples of the claim.
C5_LeftStringEnded ==
    /\ (Terminal /\ IsPrefix(argPrev, argNext))
          => LET k  == RunLen(argNext, Len(argPrev), 97)
                 j  == Len(argPrev) + k
                 nn == IF j < Len(argNext) THEN argNext[j + 1] ELSE 123
             IN  /\ pc = "done"
                 /\ result = argPrev \o Rep(97, k) \o
                        (IF nn = 98 THEN <<97, 110>>
                         ELSE <<nn - ((nn - 96) \div 2)>>)
    /\ (Terminal /\ argPrev = <<>> /\ argNext = <<>>)
          => pc = "done" /\ result = <<110>>
    /\ (Terminal /\ argPrev = <<>> /\ argNext = <<105>>)
          => pc = "done" /\ result = <<101>>
    /\ (Terminal /\ argPrev = <<>> /\ argNext = <<98>>)
          => pc = "done" /\ result = <<97, 110>>
    /\ (Terminal /\ argPrev = <<97,98,99>> /\ argNext = <<97,98,99,97,98>>)
          => pc = "done" /\ result = <<97,98,99,97,97,110>>

\* C5's case: "abc", "abcab" has returned "abcaan" (a run of a, then b)
C5_Witness ==
    /\ pc = "done"
    /\ argPrev = <<97,98,99>>
    /\ argNext = <<97,98,99,97,98>>
    /\ result = <<97,98,99,97,97,110>>

\* C6: when the first differing bytes are adjacent letters p (prev) and
\* p + 1 (next), the result is the common prefix, then p, then the maximal
\* run of 'z' prev has right after, then the one byte 123 - (123 - q) / 2
\* with q the byte of prev after the run, or 96 if prev has ended; with the
\* three examples of the claim.
C6_ConsecutiveCarry ==
    /\ LET k == LcpLen(argPrev, argNext)
       IN  (/\ Terminal
            /\ k < Len(argPrev)
            /\ k < Len(argNext)
            /\ argNext[k + 1] = argPrev[k + 1] + 1)
              => LET r == RunLen(argPrev, k + 1, 122)
                     j == k + 1 + r
                     q == IF j < Len(argPrev) THEN argPrev[j + 1] ELSE 96
                 IN  /\ pc = "done"
                     /\ result = SubSeq(argPrev, 1, k + 1) \o Rep(122, r)
                                   \o <<123 - ((123 - q) \div 2)>>
    /\ (Terminal /\ argPrev = <<97,98,104,115>> /\ argNext = <<97,98,105,116>>)
          => pc = "done" /\ result = <<97,98,104,119>>
    /\ (Terminal /\ argPrev = <<97,98,104>> /\ argNext = <<97,98,105,116>>)
          => pc = "done" /\ result = <<97,98,104,110>>
    /\ (Terminal /\ argPrev = <<97,98,104,122,122>> /\ argNext = <<97,98,105,116>>)
          => pc = "done" /\ result = <<97,98,104,122,122,110>>

\* C6's case: "abhzz", "abit" has returned "abhzzn" (h, i adjacent; a run
\* of z copied)
C6_Witness ==
    /\ pc = "done"
    /\ argPrev = <<97,98,104,122,122>>
    /\ argNext = <<97,98,105,116>>
    /\ result = <<97,98,104,122,122,110>>

\* C7: when the first differing position holds a letter p of prev and a
\* value n (the letter of next there, or 123 if next has ended) with
\* n - p >= 2, the result is the longest common prefix followed by the one
\* byte n - (n - p) / 2; with the two examples of the claim.
C7_PrefixThenMiddle ==
    /\ LET k  == LcpLen(argPrev, argNext)
           pp == argPrev[k + 1]
           nn == IF k < Len(argNext) THEN argNext[k + 1] ELSE 123
       IN  (Terminal /\ k < Len(argPrev) /\ nn - pp >= 2)
              => /\ pc = "done"
                 /\ result = SubSeq(argPrev, 1, k) \o
                                <<nn - ((nn - pp) \div 2)>>
    /\ (Terminal /\ argPrev = <<97,97,97>> /\ argNext = <<97,97,122>>)
          => pc = "done" /\ result = <<97,97,110>>
    /\ (Terminal /\ argPrev = <<97,98,99,100,101>>
                 /\ argNext = <<97,98,99,104,105>>)
          => pc = "done" /\ result = <<97,98,99,102>>

\* C7's case: "abcde", "abchi" has returned "abcf" (prefix abc, gap d..h)
C7_Witness ==
    /\ pc = "done"
    /\ argPrev = <<97,98,99,100,101>>
    /\ argNext = <<97,98,99,104,105>>
    /\ result = <<97,98,99,102>>

\* C8: for every pair of lowercase strings the procedure reaches its
\* return; the index never exceeds max(len(prev), len(next)), the loops run
\* at most max + 1 iterations together and the output is at most max + 1
\* bytes long.  (Stated as claimed; the code breaks it.)
C8_ReachesReturnWithinBounds ==
    LET m == MaxOf(Len(argPrev), Len(argNext))
    IN  /\ pc # "panic"
        /\ len <= m
        /\ iters <= m + 1
        /\ Len(buf) <= m + 1

C10_OutputClosure ==
    (Terminal /\ (Less(argPrev, argNext) \/ argPrev = argNext))
        => /\ pc = "done"
           /\ result # <<>>
           /\ \A i \in 1..Len(result) : result[i] \in 97..122
           /\ result[Len(result)] \in 98..122
           /\ ~IsPrefix(result, argNext)

\* C10's case: a call with prev < next has returned a key ending in 'b',
\* the lowest last byte there is
C10_Witness ==
    /\ pc = "done"
    /\ Less(argPrev, argNext)
    /\ result # <<>>
    /\ result[Len(result)] = 98

=============================================================================
